---- MODULE Spec2Model ----
(***************************************************************************)
(* Poker-Hand-History: the PokerStars hand parser (pokerstars_to_phh.py),  *)
(* the net-chip-change calculator and the batch driver with its session    *)
(* stack ledger (convert_all.py).                                          *)
(*                                                                         *)
(* A hand chunk is a sequence of text lines.  A line is a record: t is the *)
(* kind of the line (which of the source's patterns it matches), p the     *)
(* name it carries, n, m, k its numeric fields, g its bracket groups       *)
(* (each a sequence of card tokens) and allin the "and is all-in" suffix.  *)
(***************************************************************************)
EXTENDS Integers, Sequences, FiniteSets, TLC

VARIABLES
    \* ---- PokerStarsToPhhConverter and the locals of its parse loop
    converter,       \* the fields of the converter object (the Hand record)
    current_street,  \* parse_pokerstars_hand: current_street
    in_summary,      \* parse_pokerstars_hand: in_summary
    \* ---- the hand being played / read (the chunk so far) and its table
    text,            \* the lines of the chunk so far
    table,           \* the card room's view of the hand that produces text
    net,             \* the last result of compute_net_changes
    \* ---- convert_all.main
    files,           \* the input directory: per file, name match and chunks
    fi, ci,          \* position of the two nested loops (file, chunk)
    converted, skipped,
    session_stacks,
    seen_hand_ids,
    outputs,         \* OUTPUT_DIR: hand id -> written record
    pc,              \* position of main: "loop" or "done"
    log              \* history of the run: chunks visited, the outcome of the
                     \* last one, file writes per hand id, ids that failed

vars == <<converter, current_street, in_summary, text, table, net,
          files, fi, ci, converted, skipped, session_stacks, seen_hand_ids,
          outputs, pc, log>>

----------------------------------------------------------------------------
(* Values *)

\* Python's None for an Optional[int] (amounts and ids parsed by \d+ are >= 0)
None == -1

\* the placeholder stack of the corpus, and the ledger's default
DefaultStack == 10000

Line(t, p, n, m, k, g, allin) ==
    [t |-> t, p |-> p, n |-> n, m |-> m, k |-> k, g |-> g, allin |-> allin]

\* "PokerStars Hand #<id>: Hold'em No Limit (<sb>/<bb>) - ..."; the id is a
\* string of digits, "" when the line holds no "Hand #<digits>:"
Header(id, sb, bb)   == Line("header", id, None, sb, bb, <<>>, FALSE)
\* "Table '<session>' 6-max Seat #<button> is the button"
TableLine(s, button) == Line("table", s, button, None, None, <<>>, FALSE)
\* "Seat <seat>: <name> (<stack> in chips)"
Seat(seat, p, stack) == Line("seat", p, seat, stack, None, <<>>, FALSE)
\* "<name>: posts small blind <n>", "<name>: posts big blind <n>"
PostSB(p, n, a)      == Line("sb", p, n, None, None, <<>>, a)
PostBB(p, n, a)      == Line("bb", p, n, None, None, <<>>, a)
\* "<name>: folds", "<name>: checks", "<name>: calls <n>", "<name>: bets <n>"
Folds(p)             == Line("fold", p, None, None, None, <<>>, FALSE)
Checks(p)            == Line("check", p, None, None, None, <<>>, FALSE)
Calls(p, n, a)       == Line("call", p, n, None, None, <<>>, a)
Bets(p, n, a)        == Line("bet", p, n, None, None, <<>>, a)
\* "<name>: raises <x> to <y>"
Raises(p, x, y, a)   == Line("raise", p, x, y, None, <<>>, a)
\* "Uncalled bet (<n>) returned to <name>"
Uncalled(n, p)       == Line("uncalled", p, n, None, None, <<>>, FALSE)
\* "<name> collected <n><frac> from pot"; k = 0: "", k = 1: ".0", k = 2: another fraction
Collected(p, n, k)   == Line("collected", p, n, None, k, <<>>, FALSE)
\* "<name>: shows [..] (..)"
Shows(p, cards)      == Line("shows", p, None, None, None, <<cards>>, FALSE)
\* "*** HOLE CARDS ***", "*** FLOP *** [..]", "*** TURN *** [..] [..]", ...
HoleCards            == Line("holecards", "", None, None, None, <<>>, FALSE)
Flop(g)              == Line("flop", "", None, None, None, g, FALSE)
Turn(g)              == Line("turn", "", None, None, None, g, FALSE)
River(g)             == Line("river", "", None, None, None, g, FALSE)
Summary              == Line("summary", "", None, None, None, <<>>, FALSE)
\* "Dealt to <name> [c1 c2]"
Dealt(p, cards)      == Line("dealt", p, None, None, None, <<cards>>, FALSE)
\* "Total pot <n> | Rake <m>"
TotalPot(n, m)       == Line("totalpot", "", n, m, None, <<>>, FALSE)
\* "Board [c1 c2 ...]"
BoardLine(cards)     == Line("board", "", None, None, None, <<cards>>, FALSE)
\* a seat line of the summary: "Seat <seat>: <name> folded before Flop"
SeatSummary(seat, p) == Line("seatsummary", p, seat, None, None, <<>>, FALSE)
\* any other non-empty text, with or without a ':' (n = 1: it holds one)
Other(n)             == Line("other", "", n, None, None, <<>>, FALSE)

----------------------------------------------------------------------------
(* pokerstars_to_phh.py: PokerStarsToPhhConverter *)

Player(seat, name, stack) ==
    [seat |-> seat, name |-> name, starting_stack |-> stack, hole_cards |-> <<>>]

Action(player, action_type, amount) ==
    [player |-> player, action_type |-> action_type, amount |-> amount]

\* reset(): the state of a fresh converter
reset ==
    [players |-> <<>>, button_seat |-> 0, small_blind |-> 0, big_blind |-> 0,
     ante |-> 0,
     actions |-> [s \in {"preflop", "flop", "turn", "river"} |-> <<>>],
     board |-> <<>>,
     board_by_street |-> [s \in {"flop", "turn", "river"} |-> <<>>],
     pot |-> 0, rake |-> 0, hand_id |-> "", variant |-> "NT"]

\* parse_header: the id and the blinds, each only when its pattern matches
parse_header(cv, line) ==
    LET c1 == IF line.p # "" THEN [cv EXCEPT !.hand_id = line.p] ELSE cv
    IN  IF line.m # None
        THEN [c1 EXCEPT !.small_blind = line.m, !.big_blind = line.k]
        ELSE c1

parse_button(cv, line) ==
    IF line.n # None THEN [cv EXCEPT !.button_seat = line.n] ELSE cv

parse_seat(cv, line) ==
    IF line.t = "seat"
    THEN [cv EXCEPT !.players = Append(@, Player(line.n, line.p, line.m))]
    ELSE cv

RECURSIVE FirstIndex(_, _, _)
\* the index (1-based) of the first player named name at or after i, 0 if none
FirstIndex(players, name, i) ==
    IF i > Len(players) THEN 0
    ELSE IF players[i].name = name THEN i
    ELSE FirstIndex(players, name, i + 1)

\* parse_hole_cards: the first player of that name gets the cards
parse_hole_cards(cv, line) ==
    LET i == FirstIndex(cv.players, line.p, 1)
    IN  IF i = 0 THEN cv
        ELSE [cv EXCEPT !.players[i].hole_cards = line.g[1]]

\* parse_action: the action type by keyword, before the all-in suffix
ActionKind(line) ==
    CASE line.t = "sb"    -> "post_sb"
      [] line.t = "bb"    -> "post_bb"
      [] line.t = "fold"  -> "fold"
      [] line.t = "check" -> "check"
      [] line.t = "call"  -> "call"
      [] line.t = "raise" -> "raise"
      [] line.t = "bet"   -> "bet"
      [] OTHER            -> ""

\* (mutation of ActionAmount: a raise records its increment)
ActionAmount_increment(line) ==
    CASE line.t \in {"sb", "bb", "call", "bet", "raise"} -> line.n
      [] OTHER                                           -> None

\* parse_action: the amount recorded for the line
ActionAmount(line) ==
    CASE line.t \in {"sb", "bb", "call", "bet"} -> line.n
      [] line.t = "raise"                       -> line.m
      [] OTHER                                  -> None

AllInKind(kind, allin) ==
    IF ~allin THEN kind
    ELSE CASE kind = "post_sb" -> "post_sb_allin"
           [] kind = "post_bb" -> "post_bb_allin"
           [] kind = "fold"    -> "fold_allin"
           [] kind = "check"   -> "check_allin"
           [] kind = "call"    -> "call_allin"
           [] kind = "raise"   -> "raise_allin"
           [] kind = "bet"     -> "bet_allin"
           [] OTHER            -> "allin"

\* (mutation of parse_action: every action goes to the preflop list)
parse_action_preflop(cv, line, street) ==
    IF ActionKind(line) = "" THEN cv
    ELSE [cv EXCEPT !.actions["preflop"] =
             Append(@, Action(line.p, AllInKind(ActionKind(line), line.allin),
                              ActionAmount(line)))]

\* parse_action: the action is appended to the list of the current street
parse_action(cv, line, street) ==
    IF ActionKind(line) = "" THEN cv      \* no player name: nothing appended
    ELSE [cv EXCEPT !.actions[street] =
             Append(@, Action(line.p, AllInKind(ActionKind(line), line.allin),
                              ActionAmount(line)))]

\* parse_board: the cards of the first bracket group
parse_board(line) == IF Len(line.g) > 0 THEN line.g[1] ELSE <<>>

\* re.findall(...)[-1].split() when there is more than one group
LastGroup(g) == g[Len(g)]

\* (mutation of ExtendBoard: the first bracket group, as parse_board takes it)
ExtendBoard_first(board, g) == IF Len(g) > 1 THEN board \o g[1] ELSE board

\* the full board after a TURN or RIVER marker
ExtendBoard(board, g) == IF Len(g) > 1 THEN board \o LastGroup(g) ELSE board

RECURSIVE Flatten(_)
Flatten(g) == IF g = <<>> THEN <<>> ELSE Head(g) \o Flatten(Tail(g))

\* (mutation of StreetCards: every bracket group of the marker line)
StreetCards_all(old, g) == IF Len(g) > 1 THEN Flatten(g) ELSE old

\* the per-street list after a TURN or RIVER marker
StreetCards(old, g) == IF Len(g) > 1 THEN LastGroup(g) ELSE old

\* parse_summary: pot and rake, and the board restated by a "Board [..]" line
parse_summary(cv, line) ==
    CASE line.t = "totalpot" -> [cv EXCEPT !.pot = line.n, !.rake = line.m]
      [] line.t = "board"    -> [cv EXCEPT !.board = line.g[1]]
      [] OTHER               -> cv

\* does the line contain a ':' (the guard of the action branch)
HasColon(line) ==
    \/ line.t \in {"sb", "bb", "fold", "check", "call", "raise", "bet", "shows"}
    \/ line.t = "other" /\ line.n = 1

\* (mutation of IsActionLine: the summary does not close the action branch)
IsActionLine_always(line, insum) == HasColon(line)

\* the guard of the action branch: ':' in line and not in_summary
IsActionLine(line, insum) == HasColon(line) /\ ~insum

PState(cv, street, insum) ==
    [cv |-> cv, current_street |-> street, in_summary |-> insum]

\* one iteration of the loop of parse_pokerstars_hand (first matching branch)
ParseLine(cv, street, insum, line) ==
    CASE line.t = "header" -> PState(parse_header(cv, line), street, insum)
      [] line.t = "table"  -> PState(parse_button(cv, line), street, insum)
      [] line.t \in {"seat", "seatsummary"} ->
            PState(parse_seat(cv, line), street, insum)
      [] line.t = "dealt"  -> PState(parse_hole_cards(cv, line), street, insum)
      [] line.t = "holecards" -> PState(cv, "preflop", insum)
      [] line.t = "flop" ->
            PState([cv EXCEPT !.board = @ \o parse_board(line),
                              !.board_by_street["flop"] = parse_board(line)],
                   "flop", insum)
      [] line.t = "turn" ->
            PState([cv EXCEPT !.board = ExtendBoard(@, line.g),
                              !.board_by_street["turn"] = StreetCards(@, line.g)],
                   "turn", insum)
      [] line.t = "river" ->
            PState([cv EXCEPT !.board = ExtendBoard(@, line.g),
                              !.board_by_street["river"] = StreetCards(@, line.g)],
                   "river", insum)
      [] line.t = "summary" -> PState(cv, street, TRUE)
      [] OTHER ->
            IF IsActionLine(line, insum)
            THEN PState(parse_action(cv, line, street), street, insum)
            ELSE IF insum
            THEN PState(parse_summary(cv, line), street, insum)
            ELSE PState(cv, street, insum)

RECURSIVE ParseFrom(_, _, _)
\* the loop over the lines from line i on (each iteration's state is computed
\* before the next iteration starts)
ParseFrom(st, lines, i) ==
    IF i > Len(lines) THEN st
    ELSE LET x == ParseLine(st.cv, st.current_street, st.in_summary, lines[i])
         IN  IF x.in_summary \in BOOLEAN THEN ParseFrom(x, lines, i + 1) ELSE x

\* (mutation of Reset: the fields keep what the last hand left in them)
Reset_keep(cv) == cv

\* self.reset() on a converter that holds the record cv: every field is
\* assigned anew
Reset(cv) == reset

\* parse_pokerstars_hand on a converter that holds the record cv: reset, then
\* every line in order
parse_on(cv, hand_text) ==
    ParseFrom(PState(Reset(cv), "preflop", FALSE), hand_text, 1).cv

\* parse_pokerstars_hand on a newly constructed converter (__init__ resets)
parse_pokerstars_hand(hand_text) == parse_on(reset, hand_text)

\* get_player_index: 0-based, -1 when no player has the name
get_player_index(cv, name) == FirstIndex(cv.players, name, 1) - 1

\* _format_action: the amount is written for call, bet and raise only
format_action(cv, a) ==
    [player |-> get_player_index(cv, a.player), action |-> a.action_type,
     amount |-> IF a.action_type \in {"call", "bet", "raise"} THEN a.amount ELSE None]

RECURSIVE BlindsFrom(_, _, _, _)
\* the loop over the preflop actions that fills the blinds array (0-based idx)
BlindsFrom(cv, blinds, acts, i) ==
    IF i > Len(acts) THEN blinds
    ELSE LET a == acts[i]
             idx == get_player_index(cv, a.player)
             b == IF a.action_type = "post_sb" /\ idx >= 0
                    THEN [blinds EXCEPT ![idx + 1] = cv.small_blind]
                  ELSE IF a.action_type = "post_bb" /\ idx >= 0
                    THEN [blinds EXCEPT ![idx + 1] = cv.big_blind]
                  ELSE blinds
         IN  BlindsFrom(cv, b, acts, i + 1)

SelectNotBlind(acts) ==
    SelectSeq(acts, LAMBDA a : a.action_type \notin {"post_sb", "post_bb"})

\* convert_to_phh: the record, field by field (an absent key is an empty list)
convert_to_phh(cv) ==
    [variant |-> cv.variant,
     antes |-> [i \in DOMAIN cv.players |-> cv.ante],
     blinds_or_straddles |->
        BlindsFrom(cv, [i \in DOMAIN cv.players |-> 0], cv.actions["preflop"], 1),
     min_bet |-> cv.big_blind,
     starting_stacks |-> [i \in DOMAIN cv.players |-> cv.players[i].starting_stack],
     flop_cards |-> cv.board_by_street["flop"],
     turn_cards |-> cv.board_by_street["turn"],
     river_cards |-> cv.board_by_street["river"],
     board |-> cv.board,
     players |-> [i \in DOMAIN cv.players |->
                    [name |-> cv.players[i].name,
                     starting_stack |-> cv.players[i].starting_stack,
                     hole_cards |-> cv.players[i].hole_cards]],
     actions |-> [st \in {"preflop", "flop", "turn", "river"} |->
                    LET acts == IF st = "preflop"
                                THEN SelectNotBlind(cv.actions[st])
                                ELSE cv.actions[st]
                    IN  [i \in DOMAIN acts |-> format_action(cv, acts[i])]]]

----------------------------------------------------------------------------
(* phh_reader.py: HandHistory *)

\* HandHistory.__init__ on the loaded record: every key with its default
HandHistory(data) ==
    [variant |-> data.variant, antes |-> data.antes,
     blinds |-> data.blinds_or_straddles, min_bet |-> data.min_bet,
     starting_stacks |-> data.starting_stacks,
     flop_cards |-> data.flop_cards, turn_cards |-> data.turn_cards,
     river_cards |-> data.river_cards, board |-> data.board,
     players |-> [i \in DOMAIN data.players |->
                    [index |-> i - 1, name |-> data.players[i].name,
                     starting_stack |-> data.players[i].starting_stack,
                     hole_cards |-> data.players[i].hole_cards]],
     actions |-> data.actions]

\* get_actions: Action(**action_dict) for every entry of the street; the
\* amount is None when the entry has none
get_actions(hh, street) ==
    [i \in DOMAIN hh.actions[street] |->
        [player |-> hh.actions[street][i].player,
         action |-> hh.actions[street][i].action,
         amount |-> hh.actions[street][i].amount]]

----------------------------------------------------------------------------
(* convert_all.py: compute_net_changes *)

\* d[k] = v on a Python dict: the key is created when it is missing
Put(d, k, v) == [x \in (DOMAIN d) \cup {k} |-> IF x = k THEN v ELSE d[x]]

RECURSIVE SeatNames(_, _)
\* the first loop: the names of all lines matching the seat pattern, in order
SeatNames(lines, i) ==
    IF i > Len(lines) THEN <<>>
    ELSE IF lines[i].t = "seat" THEN <<lines[i].p>> \o SeatNames(lines, i + 1)
    ELSE SeatNames(lines, i + 1)

NameSet(names) == {names[i] : i \in DOMAIN names}

\* (mutation of SetBet: the amount is added to the per-street bet)
SetBet_add(old, n) == old + n

\* a blind post, a bet and a raise "to" set the per-street bet
SetBet(old, n) == n

\* (mutation of CallBet: a call overwrites the per-street bet)
CallBet_overwrite(old, n) == n

\* a call adds its amount to the per-street bet
CallBet(old, n) == old + n

\* (mutation of ReturnBet: the returned bet stays committed)
ReturnBet_ignore(old, n) == old

\* an uncalled bet returned is taken off the per-street bet
ReturnBet(old, n) == old - n

\* committed[name] += street_bets[name] for every key of street_bets;
\* a key of street_bets that committed lacks raises KeyError
FoldStreet(s) ==
    IF ~((DOMAIN s.street_bets) \subseteq (DOMAIN s.committed))
    THEN [s EXCEPT !.ok = FALSE]
    ELSE [s EXCEPT
            !.committed = [x \in DOMAIN s.committed |->
                             IF x \in DOMAIN s.street_bets
                             THEN s.committed[x] + s.street_bets[x]
                             ELSE s.committed[x]],
            !.street_bets = [x \in DOMAIN s.street_bets |-> 0]]

\* (mutation of PastSummary: the lines after the marker are read as well)
PastSummary_never(insum) == FALSE

\* "if in_summary: continue" of the second loop, "break" of the third
PastSummary(insum) == insum

\* one iteration of the second loop (lines 37-90)
NetLine(s, line) ==
    IF ~s.ok THEN s
    ELSE IF line.t = "summary" THEN [s EXCEPT !.in_summary = TRUE]
    ELSE IF PastSummary(s.in_summary) THEN s
    ELSE IF line.t \in {"flop", "turn", "river"} THEN FoldStreet(s)
    ELSE IF line.t \in {"sb", "bb", "bet"}
      THEN [s EXCEPT !.street_bets =
              Put(@, line.p, SetBet(IF line.p \in DOMAIN @ THEN @[line.p] ELSE 0,
                                    line.n))]
    ELSE IF line.t = "call"
      THEN IF line.p \in DOMAIN s.street_bets
           THEN [s EXCEPT !.street_bets[line.p] = CallBet(@, line.n)]
           ELSE [s EXCEPT !.ok = FALSE]
    ELSE IF line.t = "raise"
      THEN [s EXCEPT !.street_bets =
              Put(@, line.p, SetBet(IF line.p \in DOMAIN @ THEN @[line.p] ELSE 0,
                                    line.m))]
    ELSE IF line.t = "uncalled"
      THEN IF line.p \in DOMAIN s.street_bets
           THEN [s EXCEPT !.street_bets[line.p] = ReturnBet(@, line.n)]
           ELSE [s EXCEPT !.ok = FALSE]
    ELSE s

RECURSIVE NetFrom(_, _, _)
\* the loop from line i on; it ends where a line raises
NetFrom(s, lines, i) ==
    IF i > Len(lines) THEN s
    ELSE LET x == NetLine(s, lines[i])
         IN  IF x.ok THEN NetFrom(x, lines, i + 1) ELSE x

\* the second loop and the final fold of the last street (lines 32-94)
Committed(lines) ==
    LET names == NameSet(SeatNames(lines, 1))
        s0 == [committed |-> [x \in names |-> 0],
               street_bets |-> [x \in names |-> 0],
               in_summary |-> FALSE, ok |-> TRUE]
    IN  FoldStreet(NetFrom(s0, lines, 1))

\* the third loop: "collected N from pot" before the summary marker;
\* the pattern admits no fraction but ".0"
WinLine(w, line) ==
    IF ~w.ok \/ PastSummary(w.in_summary) THEN w
    ELSE IF line.t = "summary" THEN [w EXCEPT !.in_summary = TRUE]
    ELSE IF line.t = "collected" /\ line.k \in {0, 1}
      THEN IF line.p \in DOMAIN w.winnings
           THEN [w EXCEPT !.winnings[line.p] = @ + line.n]
           ELSE [w EXCEPT !.ok = FALSE]
    ELSE w

RECURSIVE WinFrom(_, _, _)
\* the loop from line i on; it ends where a line raises
WinFrom(w, lines, i) ==
    IF i > Len(lines) THEN w
    ELSE LET x == WinLine(w, lines[i])
         IN  IF x.ok THEN WinFrom(x, lines, i + 1) ELSE x

Winnings(lines) ==
    LET names == NameSet(SeatNames(lines, 1))
    IN  WinFrom([winnings |-> [x \in names |-> 0], in_summary |-> FALSE,
                 ok |-> TRUE], lines, 1)

\* net chips of one player
NetOf(won, paid) == won - paid

\* compute_net_changes: ok = FALSE when the call raises (KeyError)
compute_net_changes(hand_text) ==
    LET c == Committed(hand_text)
        w == Winnings(hand_text)
    IN  IF c.ok /\ w.ok
        THEN [ok |-> TRUE,
              net |-> [x \in NameSet(SeatNames(hand_text, 1)) |->
                         NetOf(w.winnings[x], c.committed[x])]]
        ELSE [ok |-> FALSE, net |-> <<>>]

RECURSIVE SumOver(_, _)
SumOver(f, S) ==
    IF S = {} THEN 0
    ELSE LET x == CHOOSE y \in S : TRUE IN f[x] + SumOver(f, S \ {x})

\* extract_session: the first "Table '<name>'" of the chunk, '' when none
RECURSIVE SessionFrom(_, _)
SessionFrom(lines, i) ==
    IF i > Len(lines) THEN ""
    ELSE IF lines[i].t = "table" /\ lines[i].p # "" THEN lines[i].p
    ELSE SessionFrom(lines, i + 1)

extract_session(hand_text) == SessionFrom(hand_text, 1)

----------------------------------------------------------------------------
(* One hand at a table of the card room.  The room plays a no-limit hold'em *)
(* hand among TablePlayers, who all start with the corpus's placeholder     *)
(* stack, and writes the hand's lines; the parser reads each line as it is  *)
(* written, and the calculator runs on the finished chunk.                  *)

\* the table, blinds and cards of example_hand
TablePlayers == <<"MrBlue", "MrBlonde", "MrPink">>
SmallBlind == 50
BigBlind == 100
ExampleId == "100000"
ExampleSession == "Pluribus Session 100"
HoleOf == <<<<"Tc", "Qc">>, <<"8s", "4c">>, <<"Ah", "4h">>>>
FlopChoices == {<<"7d", "5h", "9d">>, <<"2c", "3c", "4c">>}
TurnCard == "7c"
RiverCard == "Qh"

\* at most this many bets and raises in one hand
MaxRaises == 2

N == Len(TablePlayers)
Seats == 1..N

Max(S) == CHOOSE x \in S : \A y \in S : y <= x

NonFolded(t) == Seats \ t.folded
Active(t) == {j \in NonFolded(t) : t.stack[j] > 0}
MaxBet(t) == Max({t.bet[j] : j \in Seats})

\* the betting round is over
RoundOver(t) ==
    \/ Cardinality(NonFolded(t)) = 1
    \/ \A j \in Active(t) : j \in t.acted /\ t.bet[j] = MaxBet(t)
    \/ Cardinality(Active(t)) <= 1 /\ \A j \in Active(t) : t.bet[j] = MaxBet(t)

\* the next active seat after seat from, clockwise
NextSeat(t, from) ==
    LET D(j) == (j - from - 1) % N
    IN  IF Active(t) = {} THEN from
        ELSE CHOOSE j \in Active(t) : \A k \in Active(t) : D(j) <= D(k)

\* the lines written by the room are read by the parser as they come
Emit(ls) ==
    /\ text' = text \o ls
    /\ LET st == ParseFrom(PState(converter, current_street, in_summary), ls, 1)
       IN  /\ converter' = st.cv
           /\ current_street' = st.current_street
           /\ in_summary' = st.in_summary

DriverIdle ==
    UNCHANGED <<files, fi, ci, converted, skipped, session_stacks,
                seen_hand_ids, outputs, pc, log>>

Table0 ==
    [phase |-> "start", stack |-> [j \in Seats |-> DefaultStack],
     bet |-> [j \in Seats |-> 0], pot |-> 0, folded |-> {}, acted |-> {},
     turn |-> N, street |-> 1, raises |-> 0, rake |-> 0, board |-> <<>>,
     trailing |-> FALSE]

\* header, table line, seats, blinds, hole cards
StartHand ==
    /\ table.phase = "start"
    /\ Emit(<<Header(ExampleId, SmallBlind, BigBlind),
              TableLine(ExampleSession, N)>>
            \o [j \in Seats |-> Seat(j, TablePlayers[j], DefaultStack)]
            \o <<PostSB(TablePlayers[1], SmallBlind, FALSE),
                 PostBB(TablePlayers[2], BigBlind, FALSE),
                 HoleCards>>
            \o [j \in Seats |-> Dealt(TablePlayers[j], HoleOf[j])])
    /\ table' = [table EXCEPT
                   !.phase = "betting",
                   !.stack[1] = @ - SmallBlind, !.stack[2] = @ - BigBlind,
                   !.bet[1] = SmallBlind, !.bet[2] = BigBlind,
                   !.turn = NextSeat(table, 2)]
    /\ UNCHANGED net /\ DriverIdle

Betting == table.phase = "betting" /\ ~RoundOver(table)

PlayerFolds ==
    /\ Betting
    /\ LET j == table.turn
           t1 == [table EXCEPT !.folded = @ \cup {j}]
       IN  /\ table.bet[j] < MaxBet(table)
           /\ Emit(<<Folds(TablePlayers[j])>>)
           /\ table' = [t1 EXCEPT !.turn = NextSeat(t1, j)]
    /\ UNCHANGED net /\ DriverIdle

PlayerChecks ==
    /\ Betting
    /\ LET j == table.turn
           t1 == [table EXCEPT !.acted = @ \cup {j}]
       IN  /\ table.bet[j] = MaxBet(table)
           /\ Emit(<<Checks(TablePlayers[j])>>)
           /\ table' = [t1 EXCEPT !.turn = NextSeat(t1, j)]
    /\ UNCHANGED net /\ DriverIdle

PlayerCalls ==
    /\ Betting
    /\ LET j == table.turn
           c == MaxBet(table) - table.bet[j]
           t1 == [table EXCEPT !.acted = @ \cup {j}, !.bet[j] = @ + c,
                               !.stack[j] = @ - c]
       IN  /\ c > 0
           /\ c <= table.stack[j]
           /\ Emit(<<Calls(TablePlayers[j], c, c = table.stack[j])>>)
           /\ table' = [t1 EXCEPT !.turn = NextSeat(t1, j)]
    /\ UNCHANGED net /\ DriverIdle

PlayerBets ==
    /\ Betting
    /\ table.raises < MaxRaises
    /\ MaxBet(table) = 0
    /\ LET j == table.turn
       IN  \E x \in {BigBlind, table.stack[j]} :
             LET t1 == [table EXCEPT !.acted = {j}, !.bet[j] = x,
                                     !.stack[j] = @ - x, !.raises = @ + 1]
             IN  /\ Emit(<<Bets(TablePlayers[j], x, x = table.stack[j])>>)
                 /\ table' = [t1 EXCEPT !.turn = NextSeat(t1, j)]
    /\ UNCHANGED net /\ DriverIdle

PlayerRaises ==
    /\ Betting
    /\ table.raises < MaxRaises
    /\ MaxBet(table) > 0
    /\ LET j == table.turn
           all == table.bet[j] + table.stack[j]
       IN  \E y \in {2 * MaxBet(table), all} :
             LET t1 == [table EXCEPT !.acted = {j}, !.bet[j] = y,
                                     !.stack[j] = all - y, !.raises = @ + 1]
             IN  /\ y > MaxBet(table)
                 /\ y <= all
                 /\ Emit(<<Raises(TablePlayers[j], y - MaxBet(table), y, y = all)>>)
                 /\ table' = [t1 EXCEPT !.turn = NextSeat(t1, j)]
    /\ UNCHANGED net /\ DriverIdle

\* the bets of the street go to the pot
Gather(t) ==
    [t EXCEPT !.pot = @ + SumOver(t.bet, Seats), !.bet = [j \in Seats |-> 0],
              !.acted = {}]

\* the marker line of the next street: the board so far restated, then the new card
DealFlop ==
    /\ table.phase = "betting" /\ RoundOver(table)
    /\ Cardinality(NonFolded(table)) > 1
    /\ table.street = 1
    /\ \E f \in FlopChoices :
         /\ Emit(<<Flop(<<f>>)>>)
         /\ table' = [Gather(table) EXCEPT !.street = 2, !.board = f,
                                           !.turn = NextSeat(table, N)]
    /\ UNCHANGED net /\ DriverIdle

DealTurn ==
    /\ table.phase = "betting" /\ RoundOver(table)
    /\ Cardinality(NonFolded(table)) > 1
    /\ table.street = 2
    /\ Emit(<<Turn(<<table.board, <<TurnCard>>>>)>>)
    /\ table' = [Gather(table) EXCEPT !.street = 3,
                                      !.board = @ \o <<TurnCard>>,
                                      !.turn = NextSeat(table, N)]
    /\ UNCHANGED net /\ DriverIdle

\* the corpus writes "[flop] [turn] [river]", the card room "[flop turn] [river]"
DealRiver ==
    /\ table.phase = "betting" /\ RoundOver(table)
    /\ Cardinality(NonFolded(table)) > 1
    /\ table.street = 3
    /\ \E g \in {<<SubSeq(table.board, 1, 3), SubSeq(table.board, 4, 4), <<RiverCard>>>>,
                 <<table.board, <<RiverCard>>>>} :
         Emit(<<River(g)>>)
    /\ table' = [Gather(table) EXCEPT !.street = 4,
                                      !.board = @ \o <<RiverCard>>,
                                      !.turn = NextSeat(table, N)]
    /\ UNCHANGED net /\ DriverIdle

\* everybody else folded: the part of the last bet nobody called goes back
Winner(t) == CHOOSE j \in NonFolded(t) : TRUE
Excess(t) == t.bet[Winner(t)] - Max({t.bet[j] : j \in Seats \ {Winner(t)}})

ReturnUncalled ==
    /\ table.phase = "betting" /\ Cardinality(NonFolded(table)) = 1
    /\ Excess(table) > 0
    /\ Emit(<<Uncalled(Excess(table), TablePlayers[Winner(table)])>>)
    /\ table' = [table EXCEPT !.bet[Winner(table)] = @ - Excess(table),
                              !.stack[Winner(table)] = @ + Excess(table)]
    /\ UNCHANGED net /\ DriverIdle

WinByFold ==
    /\ table.phase = "betting" /\ Cardinality(NonFolded(table)) = 1
    /\ Excess(table) <= 0
    /\ \E r \in {0, SmallBlind}, k \in {0, 1} :
         LET t1 == Gather(table)
         IN  /\ Emit(<<Collected(TablePlayers[Winner(table)], t1.pot - r, k)>>)
             /\ table' = [t1 EXCEPT !.phase = "summary", !.rake = r]
    /\ UNCHANGED net /\ DriverIdle

\* showdown after the river: one winner, or the first two share the pot
Showdown ==
    /\ table.phase = "betting" /\ RoundOver(table)
    /\ Cardinality(NonFolded(table)) > 1
    /\ table.street = 4
    /\ LET t1 == Gather(table)
           nf == NonFolded(table)
           a == CHOOSE j \in nf : \A k \in nf : j <= k
           b == CHOOSE j \in nf \ {a} : \A k \in nf \ {a} : j <= k
           shows == [j \in 1..Cardinality(nf) |->
                       LET s == CHOOSE x \in nf :
                                  Cardinality({y \in nf : y < x}) = j - 1
                       IN  Shows(TablePlayers[s], HoleOf[s])]
       IN  \E r \in {0, SmallBlind} :
             /\ \/ \E w \in nf :
                     Emit(<<Other(0)>> \o shows
                          \o <<Collected(TablePlayers[w], t1.pot - r, 1)>>)
                \/ Emit(<<Other(0)>> \o shows
                        \o <<Collected(TablePlayers[a],
                                       (t1.pot - r) - ((t1.pot - r) \div 2), 1),
                             Collected(TablePlayers[b], (t1.pot - r) \div 2, 1)>>)
             /\ table' = [t1 EXCEPT !.phase = "summary", !.rake = r]
    /\ UNCHANGED net /\ DriverIdle

\* "*** SUMMARY ***", the pot and the rake, the board when there is one
WriteSummary ==
    /\ table.phase = "summary"
    /\ Emit(<<Summary, TotalPot(table.pot, table.rake)>>
            \o (IF table.board = <<>> THEN <<>> ELSE <<BoardLine(table.board)>>))
    /\ table' = [table EXCEPT !.phase = "written"]
    /\ UNCHANGED net /\ DriverIdle

\* a name that no seat line of the hand carries
Newcomer == "MrWhite"

\* lines that follow the pot and board lines of a summary: the seat lines of
\* the summary, and text that looks like the lines of the hand
SummaryLines ==
    LET p == TablePlayers[1]
    IN  <<SeatSummary(1, p), Other(0), Other(1), Shows(p, HoleOf[1]),
          PostSB(p, SmallBlind, FALSE), PostBB(p, BigBlind, TRUE),
          Folds(p), Checks(p), Calls(p, BigBlind, FALSE), Bets(p, BigBlind, TRUE),
          Raises(p, BigBlind, 2 * BigBlind, FALSE),
          Uncalled(BigBlind, p), Collected(p, BigBlind, 0),
          Seat(N + 1, Newcomer, DefaultStack), Dealt(p, HoleOf[2])>>

\* the rest of the summary section
TrailingLines ==
    /\ table.phase = "written" /\ ~table.trailing
    /\ Emit(SummaryLines)
    /\ table' = [table EXCEPT !.trailing = TRUE]
    /\ UNCHANGED net /\ DriverIdle

\* the calculator runs on the finished chunk
ComputeNet ==
    /\ table.phase = "written"
    /\ net' = compute_net_changes(text)
    /\ table' = [table EXCEPT !.phase = "done"]
    /\ UNCHANGED <<converter, current_street, in_summary, text>> /\ DriverIdle

InitHand ==
    /\ converter = reset
    /\ current_street = "preflop"
    /\ in_summary = FALSE
    /\ text = <<>>
    /\ table = Table0
    /\ net = [ok |-> TRUE, net |-> <<>>]
    /\ files = <<>> /\ fi = 0 /\ ci = 0
    /\ converted = 0 /\ skipped = 0
    /\ session_stacks = <<>>
    /\ seen_hand_ids = {}
    /\ outputs = <<>>
    /\ pc = "idle"
    /\ log = [visited |-> 0, last |-> "", writes |-> <<>>, failed |-> {},
              run |-> 0, corpus |-> <<>>, first |-> <<>>, prev |-> <<>>,
              hands |-> <<>>]

NextHand ==
    \/ StartHand
    \/ PlayerFolds
    \/ PlayerChecks
    \/ PlayerCalls
    \/ PlayerBets
    \/ PlayerRaises
    \/ DealFlop
    \/ DealTurn
    \/ DealRiver
    \/ ReturnUncalled
    \/ WinByFold
    \/ Showdown
    \/ WriteSummary
    \/ TrailingLines
    \/ ComputeNet

SpecHand == InitHand /\ [][NextHand]_vars

----------------------------------------------------------------------------
(* Properties of one hand (SpecHand) *)

NoFolds(lines) == \A i \in DOMAIN lines : lines[i].t # "fold"
HasLine(lines, t) == \E i \in DOMAIN lines : lines[i].t = t

BoardIsConcatenation ==
    /\ converter.board = converter.board_by_street["flop"]
                         \o converter.board_by_street["turn"]
                         \o converter.board_by_street["river"]
    /\ Len(converter.board) \in {0, 3, 4, 5}

\* a finished hand that went to the river
BoardIsConcatenationWitness ==
    /\ table.phase = "done"
    /\ Len(converter.board) = 5
    /\ converter.board_by_street["river"] = <<RiverCard>>

\* C11: once the summary marker of a chunk has been read, no later line of
\* the chunk adds an entry to the action list of any street, whatever the
\* line holds
SummaryIsTerminal ==
    [][in_summary => /\ in_summary'
                     /\ converter'.actions = converter.actions]_vars

\* lines with a ':' and action keywords were read after the summary marker,
\* and the hand had actions on two streets
SummaryIsTerminalWitness ==
    /\ in_summary /\ table.trailing
    /\ text[Len(text) - 2].t = "collected" /\ text[Len(text) - 6].t = "call"
    /\ converter.actions["preflop"] # <<>> /\ converter.actions["flop"] # <<>>

\* C23: once the summary marker has been read, the lines that follow leave
\* the player list, the button seat, the hand id, the blind levels, the
\* per-street card lists and the per-street action lists as they were
SummaryFrame ==
    [][in_summary => /\ converter'.players = converter.players
                     /\ converter'.button_seat = converter.button_seat
                     /\ converter'.hand_id = converter.hand_id
                     /\ converter'.small_blind = converter.small_blind
                     /\ converter'.big_blind = converter.big_blind
                     /\ converter'.board_by_street = converter.board_by_street
                     /\ converter'.actions = converter.actions]_vars

\* the name of the player a loaded action points to ("" when it points to none)
ActorName(hh, a) ==
    IF a.player >= 0 /\ a.player < Len(hh.players)
    THEN hh.players[a.player + 1].name ELSE ""

\* the parsed actions of a street without the blind posts of preflop
WithoutBlindPosts(cv, street) ==
    IF street = "preflop"
    THEN SelectSeq(cv.actions[street],
                   LAMBDA a : a.action_type \notin {"post_sb", "post_bb",
                                                    "post_sb_allin", "post_bb_allin"})
    ELSE cv.actions[street]

\* C12: loading the output of convert_to_phh through HandHistory gives back
\* the player names, the starting stacks, the board cards by street and in
\* full, and per street the actions (player, kind, amount) of the parsed
\* record, the blind posts of preflop left out
RoundTrip ==
    LET hh == HandHistory(convert_to_phh(converter))
    IN  /\ Len(hh.players) = Len(converter.players)
        /\ \A i \in DOMAIN converter.players :
              /\ hh.players[i].name = converter.players[i].name
              /\ hh.players[i].starting_stack = converter.players[i].starting_stack
              /\ hh.starting_stacks[i] = converter.players[i].starting_stack
        /\ hh.flop_cards = converter.board_by_street["flop"]
        /\ hh.turn_cards = converter.board_by_street["turn"]
        /\ hh.river_cards = converter.board_by_street["river"]
        /\ hh.board = converter.board
        /\ \A st \in {"preflop", "flop", "turn", "river"} :
              LET got == get_actions(hh, st)
                  want == WithoutBlindPosts(converter, st)
              IN  /\ Len(got) = Len(want)
                  /\ \A i \in DOMAIN want :
                        /\ ActorName(hh, got[i]) = want[i].player
                        /\ got[i].action = want[i].action_type
                        /\ got[i].amount = want[i].amount

\* C20: a blind post, a bet and a raise "to T" set the per-street bet, a
\* call adds to it, a returned bet is taken off it, and every street marker
\* and the end of the hand move it to the committed total: after every line
\* of a hand up to its summary the committed total of each player is the
\* chips that left the player's stack; who posts 50 and calls 160 has
\* committed 210, who posts 100 and raises to 300 has committed 300
PostThenCall ==
    Committed(<<Seat(1, "MrBlue", DefaultStack), PostSB("MrBlue", 50, FALSE),
                Calls("MrBlue", 160, FALSE)>>).committed["MrBlue"]

PostThenRaise ==
    Committed(<<Seat(2, "MrBlonde", DefaultStack), PostBB("MrBlonde", 100, FALSE),
                Raises("MrBlonde", 200, 300, FALSE)>>).committed["MrBlonde"]

StreetBetRules ==
    /\ (table.phase # "start" /\ ~in_summary)
         => LET c == Committed(text)
            IN  /\ c.ok
                /\ \A j \in Seats :
                      c.committed[TablePlayers[j]] = DefaultStack - table.stack[j]
    /\ PostThenCall = 210
    /\ PostThenRaise = 300

\* the big blind raised to 200 before the flop, called a bet on the flop, and
\* a bet of the last street went back to its player
StreetBetRulesWitness ==
    /\ table.phase = "done"
    /\ \E i \in DOMAIN text : text[i] = Raises(TablePlayers[2], BigBlind, 2 * BigBlind, FALSE)
    /\ HasLine(text, "flop") /\ HasLine(text, "call") /\ HasLine(text, "uncalled")
    /\ Committed(text).committed[TablePlayers[2]] > 2 * BigBlind

RECURSIVE MarkerAt(_, _)
\* the position of the first summary marker at or after i, Len + 1 if none
MarkerAt(lines, i) ==
    IF i > Len(lines) THEN i
    ELSE IF lines[i].t = "summary" THEN i
    ELSE MarkerAt(lines, i + 1)

\* the chunk cut off before its summary marker
BeforeSummary(lines) == SubSeq(lines, 1, MarkerAt(lines, 1) - 1)

\* C21 (as claimed): the result of compute_net_changes on a finished chunk
\* is its result on the lines before the summary marker, whatever follows
\* the marker
NetFromBeforeSummary ==
    table.phase = "done" => net = compute_net_changes(BeforeSummary(text))

\* C21: for a finished chunk whose acting players are seated before the
\* summary marker, the net delta of every player seated before the marker is
\* the one computed from the lines before the marker alone, whatever follows
\* it (lines that look like blinds, bets, calls, raises, returned bets or
\* "collected N from pot" included); a line after the marker that matches
\* the seat pattern adds its player to the result, with net delta 0
NetOfSeatedBeforeSummary ==
    [][(table'.phase = "done" /\ table.phase # "done")
          => \E before \in {BeforeSummary(text')} :
             \E ref \in {compute_net_changes(before)} :
               /\ net'.ok /\ ref.ok
               /\ DOMAIN ref.net \subseteq DOMAIN net'.net
               /\ \A x \in DOMAIN net'.net :
                     net'.net[x] = IF x \in DOMAIN ref.net THEN ref.net[x] ELSE 0]_vars

\* a finished hand with chips won and lost, followed by summary lines that
\* look like actions and by a seat line of a new player
NetOfSeatedBeforeSummaryWitness ==
    /\ table.phase = "done" /\ table.trailing
    /\ text[Len(text) - 2] = Collected(TablePlayers[1], BigBlind, 0)
    /\ net.ok /\ Newcomer \in DOMAIN net.net
    /\ \E x \in DOMAIN net.net : net.net[x] > BigBlind
    /\ \E x \in DOMAIN net.net : net.net[x] < 0

\* the lines the action patterns of parse_action match
IsPlay(line) == line.t \in {"sb", "bb", "fold", "check", "call", "raise", "bet"}

\* the kind the data model asks for, with and without the all-in qualifier
KindWanted(line) ==
    IF line.allin
    THEN [sb |-> "post_sb_allin", bb |-> "post_bb_allin", fold |-> "fold_allin",
          check |-> "check_allin", call |-> "call_allin", raise |-> "raise_allin",
          bet |-> "bet_allin"][line.t]
    ELSE [sb |-> "post_sb", bb |-> "post_bb", fold |-> "fold", check |-> "check",
          call |-> "call", raise |-> "raise", bet |-> "bet"][line.t]

\* the amount the data model asks for: the literal amount of a blind post, a
\* call and a bet, the "to" amount of a raise, none for a fold and a check
AmountWanted(line) ==
    IF line.t \in {"fold", "check"} THEN None
    ELSE IF line.t = "raise" THEN line.m
    ELSE line.n

\* action lines of every kind, with and without the all-in suffix
PlayLines ==
    {PostSB("MrBlue", SmallBlind, FALSE), PostBB("MrBlonde", BigBlind, FALSE),
     Folds("MrPink"), Checks("MrBlue"), Calls("MrBlue", 160, FALSE),
     Bets("MrBlue", 230, FALSE), Raises("MrPink", 110, 210, FALSE)}

\* the action parse_action records for one line read by a fresh converter
Parsed(line) == parse_action(reset, line, "preflop").actions["preflop"]

\* with the suffix the line is recorded once, under the qualified kind and
\* with the amount of the line without the suffix
SuffixKeepsAmount ==
    \A l \in PlayLines :
        LET plain == Parsed(l)
            allin == Parsed([l EXCEPT !.allin = TRUE])
        IN  /\ Len(plain) = 1 /\ Len(allin) = 1
            /\ plain[1] = Action(l.p, KindWanted(l), AmountWanted(l))
            /\ allin[1].amount = plain[1].amount
            /\ allin[1].player = plain[1].player
            /\ allin[1].action_type = KindWanted([l EXCEPT !.allin = TRUE])

\* C22: every action line read before the summary is recorded once, with the
\* name on the line, the kind of the line (qualified when the line ends in
\* "and is all-in") and the amount of the data model: the literal amount
\* for a blind post, a call and a bet, Y for "raises X to Y", none for a fold
\* and a check; the suffix changes the kind and not the amount
ActionAmounts ==
    [][/\ SuffixKeepsAmount
       /\ ~in_summary'
            => LET old == converter.actions[current_street']
                   new == converter'.actions[current_street']
                   read == SelectSeq(SubSeq(text', Len(text) + 1, Len(text')), IsPlay)
               IN  /\ Len(new) = Len(old) + Len(read)
                   /\ \A i \in DOMAIN read :
                         new[Len(old) + i]
                           = Action(read[i].p, KindWanted(read[i]), AmountWanted(read[i]))]_vars

\* a hand with a raise to twice the big blind, an all-in raise for the whole
\* stack and an all-in call of the rest
ActionAmountsWitness ==
    /\ table.phase = "done"
    /\ \E i \in DOMAIN converter.actions["preflop"] :
          converter.actions["preflop"][i]
            = Action(TablePlayers[3], "raise", 2 * BigBlind)
    /\ \E i \in DOMAIN converter.actions["preflop"] :
          converter.actions["preflop"][i]
            = Action(TablePlayers[1], "raise_allin", DefaultStack)
    /\ \E i \in DOMAIN converter.actions["preflop"] :
          converter.actions["preflop"][i]
            = Action(TablePlayers[2], "call_allin", DefaultStack - BigBlind)

RECURSIVE StreetAt(_, _)
\* the street named by the last street marker above line i (preflop if none)
StreetAt(lines, i) ==
    IF i <= 1 THEN "preflop"
    ELSE IF lines[i - 1].t = "holecards" THEN "preflop"
    ELSE IF lines[i - 1].t \in {"flop", "turn", "river"} THEN lines[i - 1].t
    ELSE StreetAt(lines, i - 1)

\* the action lines among lines from..Len(lines) that stand under street s
PlaysUnder(lines, from, s) ==
    SelectSeq([k \in 1..(Len(lines) - from + 1) |-> from + k - 1],
              LAMBDA i : IsPlay(lines[i]) /\ StreetAt(lines, i) = s)

\* the number of actions recorded over all streets
Recorded(cv) ==
    Len(cv.actions["preflop"]) + Len(cv.actions["flop"])
      + Len(cv.actions["turn"]) + Len(cv.actions["river"])

\* C24: the parser starts in street preflop, and every action line read
\* before the summary marker is appended to the list of the street named by
\* the last street marker above it (preflop if none) and to no other list:
\* each list grows at its end, in line order, and the lists together hold
\* one action per action line
ActionsByStreet ==
    [][/\ text = <<>> => current_street = "preflop"
       /\ ~in_summary'
            => /\ \A s \in {"preflop", "flop", "turn", "river"} :
                     LET read == PlaysUnder(text', Len(text) + 1, s)
                     IN  converter'.actions[s]
                           = converter.actions[s]
                               \o [k \in DOMAIN read |->
                                      Action(text'[read[k]].p, KindWanted(text'[read[k]]),
                                             AmountWanted(text'[read[k]]))]
               /\ Recorded(converter') = Len(SelectSeq(text', IsPlay))]_vars

\* a hand with blind posts above the first marker and actions on all four
\* streets, two of them on the river
ActionsByStreetWitness ==
    /\ table.phase = "done"
    /\ text[6].t = "sb" /\ text[8].t = "holecards"
    /\ Len(converter.actions["preflop"]) > 2
    /\ converter.actions["flop"] # <<>> /\ converter.actions["turn"] # <<>>
    /\ Len(converter.actions["river"]) > 1
    /\ converter.actions["river"][1].action_type = "bet"
    /\ converter.actions["river"][2].action_type = "raise"

\* C10: a turn or river marker that restates the board so far and then shows
\* one new card gives the street exactly that card and appends exactly that
\* card to the full board
NewCardOnly ==
    [][(table.phase = "betting" /\ table'.street \in {3, 4}
        /\ table'.street # table.street)
         => LET line == text'[Len(text')]
                new == line.g[Len(line.g)]
            IN  /\ line.t \in {"turn", "river"}
                /\ Len(line.g) > 1 /\ Len(new) = 1
                /\ Flatten(SubSeq(line.g, 1, Len(line.g) - 1)) = converter.board
                /\ converter'.board = converter.board \o new
                /\ converter'.board_by_street[line.t] = new
                /\ \A s \in {"flop", "turn", "river"} \ {line.t} :
                     converter'.board_by_street[s] = converter.board_by_street[s]]_vars

\* a river marker "[flop turn] [river]" has just been read
NewCardOnlyWitness ==
    /\ text # <<>>
    /\ LET line == text[Len(text)]
       IN  /\ line.t = "river" /\ Len(line.g) = 2 /\ Len(line.g[1]) = 4
           /\ converter.board_by_street["river"] = <<RiverCard>>
           /\ converter.board_by_street["turn"] = <<TurnCard>>
           /\ Len(converter.board) = 5

----------------------------------------------------------------------------
(* convert_all.py: main *)

\* the hand of __main__ in pokerstars_to_phh.py (lines 413-450)
ExampleHand(id, s) ==
    <<Header(id, SmallBlind, BigBlind), TableLine(s, 6),
      Seat(1, "MrBlue", DefaultStack), Seat(2, "MrBlonde", DefaultStack),
      Seat(3, "MrWhite", DefaultStack), Seat(4, "MrPink", DefaultStack),
      Seat(5, "MrBrown", DefaultStack), Seat(6, "Pluribus", DefaultStack),
      PostSB("MrBlue", 50, FALSE), PostBB("MrBlonde", 100, FALSE),
      HoleCards,
      Dealt("MrBlue", <<"Tc", "Qc">>), Dealt("MrBlonde", <<"8s", "4c">>),
      Dealt("MrWhite", <<"9c", "3d">>), Dealt("MrPink", <<"Ah", "4h">>),
      Dealt("MrBrown", <<"Th", "5s">>), Dealt("Pluribus", <<"6c", "7s">>),
      Folds("MrWhite"), Raises("MrPink", 110, 210, FALSE), Folds("MrBrown"),
      Folds("Pluribus"), Calls("MrBlue", 160, FALSE), Folds("MrBlonde"),
      Flop(<<<<"7d", "5h", "9d">>>>),
      Checks("MrBlue"), Checks("MrPink"),
      Turn(<<<<"7d", "5h", "9d">>, <<"7c">>>>),
      Checks("MrBlue"), Checks("MrPink"),
      River(<<<<"7d", "5h", "9d">>, <<"7c">>, <<"Qh">>>>),
      Bets("MrBlue", 230, FALSE), Folds("MrPink"),
      Uncalled(230, "MrBlue"), Collected("MrBlue", 520, 1),
      Summary, TotalPot(520, 0),
      BoardLine(<<"7d", "5h", "9d", "7c", "Qh">>)>>

\* two players all-in before the flop; MrPink wins the 20000
AllInHand(id, s) ==
    <<Header(id, SmallBlind, BigBlind), TableLine(s, 2),
      Seat(1, "MrBlue", DefaultStack), Seat(2, "MrPink", DefaultStack),
      PostSB("MrBlue", 50, FALSE), PostBB("MrPink", 100, FALSE),
      HoleCards,
      Dealt("MrBlue", <<"Tc", "Qc">>), Dealt("MrPink", <<"Ah", "4h">>),
      Raises("MrBlue", 9900, 10000, TRUE), Calls("MrPink", 9900, TRUE),
      Flop(<<<<"7d", "5h", "9d">>>>),
      Turn(<<<<"7d", "5h", "9d">>, <<"7c">>>>),
      River(<<<<"7d", "5h", "9d">>, <<"7c">>, <<"Qh">>>>),
      Collected("MrPink", 20000, 1),
      Summary, TotalPot(20000, 0),
      BoardLine(<<"7d", "5h", "9d", "7c", "Qh">>)>>

\* a hand in which a player acts whom no seat line names (the seat pattern
\* takes names of word characters only): the calculator raises KeyError
UnseatedHand(id, s) ==
    <<Header(id, SmallBlind, BigBlind), TableLine(s, 2),
      Seat(1, "MrBlue", DefaultStack), Seat(2, "MrPink", DefaultStack),
      PostSB("MrBlue", 50, FALSE), PostBB("MrPink", 100, FALSE),
      HoleCards,
      Calls("MrOrange", 100, FALSE), Calls("MrBlue", 50, FALSE),
      Checks("MrPink"),
      Flop(<<<<"7d", "5h", "9d">>>>),
      Bets("MrPink", 100, FALSE), Folds("MrOrange"), Folds("MrBlue"),
      Uncalled(100, "MrPink"), Collected("MrPink", 300, 1),
      Summary, TotalPot(300, 0), BoardLine(<<"7d", "5h", "9d">>)>>

\* the big blind is all the chips of the player who posts it
ShortStackHand(id, s) ==
    <<Header(id, SmallBlind, BigBlind), TableLine(s, 2),
      Seat(1, "MrBlue", DefaultStack), Seat(2, "MrBlonde", BigBlind),
      PostSB("MrBlue", 50, FALSE), PostBB("MrBlonde", 100, TRUE),
      HoleCards,
      Dealt("MrBlue", <<"Tc", "Qc">>), Dealt("MrBlonde", <<"8s", "4c">>),
      Calls("MrBlue", 50, FALSE),
      Flop(<<<<"7d", "5h", "9d">>>>),
      Turn(<<<<"7d", "5h", "9d">>, <<"7c">>>>),
      River(<<<<"7d", "5h", "9d">>, <<"7c">>, <<"Qh">>>>),
      Collected("MrBlue", 200, 1),
      Summary, TotalPot(200, 0),
      BoardLine(<<"7d", "5h", "9d", "7c", "Qh">>)>>

Ids == {"100000", "100001"}
Sessions == {"Pluribus Session 100", "Pluribus Session 101"}

\* the chunks a file of the input directory may hold
HandChunks ==
    {ExampleHand(id, s) : id \in Ids, s \in Sessions}
    \cup {AllInHand(id, s) : id \in Ids, s \in Sessions}
    \cup {UnseatedHand(id, s) : id \in Ids, s \in Sessions}

Chunks ==
    HandChunks
    \cup {<<>>,                                   \* an empty chunk
          <<Other(0)>>,                           \* text of another tool
          <<Header("", None, None), Other(1)>>,   \* the prefix, but no hand id
          <<Other(0)>> \o AllInHand("100000", "Pluribus Session 100"),
          ShortStackHand("100002", "Pluribus Session 101")}

\* the two passes over each chunk of the corpus: converter.parse_pokerstars_hand
\* (line 157) and compute_net_changes (line 175) depend on the chunk alone
ParsedChunk == [c \in Chunks |-> parse_pokerstars_hand(c)]
NetChanges == [c \in Chunks |-> compute_net_changes(c)]
SessionOf == [c \in Chunks |-> extract_session(c)]

\* exceptions the environment may raise inside the try block
Faults == {"none", "parse", "convert", "write"}

\* at most this many files in the directory, and chunks in all of them
MaxFiles == 2
MaxChunks == 3

\* (mutation of IsHand: the prefix is not looked at)
IsHand_noprefix(chunk) == TRUE

\* chunk.startswith('PokerStars Hand')
IsHand(chunk) == chunk # <<>> /\ chunk[1].t = "header"

RECURSIVE IdFrom(_, _)
\* re.search(r'Hand #(\d+):', chunk): the first id of the chunk, "" when none
IdFrom(chunk, i) ==
    IF i > Len(chunk) THEN ""
    ELSE IF chunk[i].t = "header" /\ chunk[i].p # "" THEN chunk[i].p
    ELSE IdFrom(chunk, i + 1)

HandIdOf(chunk) == IdFrom(chunk, 1)

\* (mutation of IsDuplicate: no id counts as seen)
IsDuplicate_never(id, seen) == FALSE

\* hand_id in seen_hand_ids
IsDuplicate(id, seen) == id \in seen

\* (mutation of Clamp: no lower limit)
Clamp_none(old, delta) == old + delta

\* max(0, old + delta)
Clamp(old, delta) == IF old + delta < 0 THEN 0 ELSE old + delta

\* session_stacks.get(session): the dict of the session, <<>> with have = FALSE for None
GetStacks(ledger, session) ==
    IF session \in DOMAIN ledger
    THEN [have |-> TRUE, stacks |-> ledger[session]]
    ELSE [have |-> FALSE, stacks |-> <<>>]

\* lines 162-165: the running stacks replace the parsed starting stacks
Override(cv, got) ==
    IF got.have /\ DOMAIN got.stacks # {}
    THEN [cv EXCEPT !.players =
            [i \in DOMAIN cv.players |->
               IF cv.players[i].name \in DOMAIN got.stacks
               THEN [cv.players[i] EXCEPT !.starting_stack = got.stacks[cv.players[i].name]]
               ELSE cv.players[i]]]
    ELSE cv

\* (mutation of Seeded: the session starts from the default stack)
Seeded_default(players) ==
    [x \in {players[i].name : i \in DOMAIN players} |-> DefaultStack]

\* {p.name: p.starting_stack for p in converter.players}: the last of a name wins
Seeded(players) ==
    [x \in {players[i].name : i \in DOMAIN players} |->
       LET last == CHOOSE i \in DOMAIN players :
                     /\ players[i].name = x
                     /\ \A j \in DOMAIN players : players[j].name = x => j <= i
       IN  players[last].starting_stack]

\* (mutation of ApplyNet: a player the ledger does not hold starts from 0)
ApplyNet_nodefault(stacks, deltas) ==
    [x \in (DOMAIN stacks) \cup (DOMAIN deltas) |->
       IF x \in DOMAIN deltas
       THEN Clamp(IF x \in DOMAIN stacks THEN stacks[x] ELSE 0, deltas[x])
       ELSE stacks[x]]

\* lines 180-185: every player of net gets max(0, old + delta), old defaulting
ApplyNet(stacks, deltas) ==
    [x \in (DOMAIN stacks) \cup (DOMAIN deltas) |->
       IF x \in DOMAIN deltas
       THEN Clamp(IF x \in DOMAIN stacks THEN stacks[x] ELSE DefaultStack, deltas[x])
       ELSE stacks[x]]

\* (mutation of SetSession: the ledger is left with this session alone)
SetSession_only(ledger, session, stacks) == [x \in {session} |-> stacks]

\* session_stacks[session] = stacks (line 179; a session the ledger holds
\* has its dict changed in place)
SetSession(ledger, session, stacks) == Put(ledger, session, stacks)

\* (mutation of LedgerAfterHand: the session is seeded before the net changes
\* are computed)
LedgerAfterHand_seedfirst(ledger, session, got, players, r) ==
    IF ~r.ok
    THEN (IF got.have THEN ledger ELSE Put(ledger, session, Seeded(players)))
    ELSE Put(ledger, session,
             ApplyNet(IF got.have THEN got.stacks ELSE Seeded(players), r.net))

\* lines 175-185: the ledger after the hand; nothing is touched when
\* compute_net_changes raises, because it is called first
LedgerAfterHand(ledger, session, got, players, r) ==
    IF ~r.ok THEN ledger
    ELSE SetSession(ledger, session,
                    ApplyNet(IF got.have THEN got.stacks ELSE Seeded(players), r.net))

\* (mutation of Caught: the exception ends the run)
Caught_abort(p) == "done"

\* line 187: the exception is caught and the loop goes on
Caught(p) == p

\* (mutation of StacksForRecord: the ledger is updated with the hand's own
\* net changes before its record is written)
StacksForRecord_updated(ledger, session, chunk) ==
    GetStacks(LedgerAfterHand(ledger, session, GetStacks(ledger, session),
                              ParsedChunk[chunk].players, NetChanges[chunk]),
              session)

\* line 161: the stacks the record is written from are read before the hand
\* is applied to the ledger
StacksForRecord(ledger, session, chunk) == GetStacks(ledger, session)

\* the try block (lines 155-185) on one chunk, up to the point where it
\* raises or ends: what it leaves behind (a record only when one was written)
Try(chunk, fault, ledger) ==
    LET session == SessionOf[chunk]
        got == GetStacks(ledger, session)
        cv == IF fault = "parse" THEN reset
              ELSE Override(ParsedChunk[chunk], StacksForRecord(ledger, session, chunk))
        written == fault = "none"
        r == IF written THEN NetChanges[chunk]
             ELSE [ok |-> FALSE, net |-> <<>>]
    IN  [cv |-> cv, written |-> written,
         phh |-> IF written THEN convert_to_phh(cv) ELSE <<>>,
         r |-> r, raised |-> ~written \/ ~r.ok,
         ledger |-> IF written
                    THEN LedgerAfterHand(ledger, session, got, cv.players, r)
                    ELSE ledger]

Count(f, x) == IF x \in DOMAIN f THEN f[x] ELSE 0

\* the converted hands of each session in the order of their conversion: the
\* stacks of the seat lines and the net changes
History(hands, session, chunk, r) ==
    Put(hands, session,
        Append(IF session \in DOMAIN hands THEN hands[session] ELSE <<>>,
               [seats |-> Seeded(ParsedChunk[chunk].players), d |-> r.net]))

\* what a converted hand did for each of its players: the starting stack its
\* record shows (line 168) and the net delta (line 175); kept per session,
\* for each player the latest hand
Outcome(prev, session, phh, r) ==
    LET old == IF session \in DOMAIN prev THEN prev[session] ELSE <<>>
        names == {phh.players[i].name : i \in DOMAIN phh.players}
        Shown(x) == phh.players[CHOOSE i \in DOMAIN phh.players :
                                  phh.players[i].name = x].starting_stack
    IN  Put(prev, session,
            [x \in (DOMAIN old) \cup names |->
               IF x \in names THEN [s |-> Shown(x), d |-> r.net[x]] ELSE old[x]])

\* the current file is exhausted, or its name does not match (line 129)
FileDone == IF fi = 0 THEN TRUE ELSE ~files[fi].match \/ ci = files[fi].n

HaveChunk == pc = "loop" /\ fi >= 1 /\ files[fi].match /\ ci < files[fi].n

HandIdle == UNCHANGED <<current_street, in_summary, table>>

\* the directories on which main is run twice hold these chunks
TwiceChunks ==
    {ExampleHand("100000", "Pluribus Session 100"),
     AllInHand("100001", "Pluribus Session 100"),
     AllInHand("100000", "Pluribus Session 100"),
     UnseatedHand("100001", "Pluribus Session 100"),
     <<Other(0)>>}

\* at most this many chunks in a directory on which main is run twice
MaxTwice == 2

\* the chunk at the position of the loop (and what the environment does to
\* it).  log.run = 0: a single run.  log.run = 1: the first of two runs finds
\* out what the directory holds; log.run = 2: the second run reads the same
Reads(chunk, fault) ==
    CASE log.run = 0 -> TRUE
      [] log.run = 1 -> \/ chunk \in TwiceChunks /\ fault = "none"
                        \/ chunk = <<>> /\ fault \in {"none", "test.phh"}
      [] OTHER -> log.corpus[log.visited + 1] = [chunk |-> chunk, fault |-> fault]

Record(corpus, chunk, fault) ==
    IF log.run = 1 THEN Append(corpus, [chunk |-> chunk, fault |-> fault])
    ELSE corpus

\* line 128: the next file of the sorted directory listing
NextFile ==
    /\ pc = "loop" /\ FileDone /\ fi < Len(files)
    /\ fi' = fi + 1
    /\ ci' = 0
    /\ UNCHANGED <<converter, text, net, files, converted, skipped,
                   session_stacks, seen_hand_ids, outputs, pc, log>>
    /\ HandIdle

\* lines 139-141: not a hand
SkipNotHand ==
    /\ HaveChunk
    /\ \E chunk \in Chunks :
         /\ Reads(chunk, "none")
         /\ ~IsHand(chunk)
         /\ text' = chunk
         /\ log' = [log EXCEPT !.visited = @ + 1, !.last = "nothand",
                              !.corpus = Record(@, chunk, "none")]
    /\ skipped' = skipped + 1
    /\ ci' = ci + 1
    /\ UNCHANGED <<converter, net, files, fi, converted, session_stacks,
                   seen_hand_ids, outputs, pc>>
    /\ HandIdle

\* lines 144-147: no hand id
SkipNoId ==
    /\ HaveChunk
    /\ \E chunk \in Chunks :
         /\ Reads(chunk, "none")
         /\ IsHand(chunk)
         /\ HandIdOf(chunk) = ""
         /\ text' = chunk
         /\ log' = [log EXCEPT !.visited = @ + 1, !.last = "noid",
                              !.corpus = Record(@, chunk, "none")]
    /\ skipped' = skipped + 1
    /\ ci' = ci + 1
    /\ UNCHANGED <<converter, net, files, fi, converted, session_stacks,
                   seen_hand_ids, outputs, pc>>
    /\ HandIdle

\* lines 149-152: a hand id seen before
SkipDuplicate ==
    /\ HaveChunk
    /\ \E chunk \in Chunks :
         /\ Reads(chunk, "none")
         /\ IsHand(chunk)
         /\ HandIdOf(chunk) # ""
         /\ IsDuplicate(HandIdOf(chunk), seen_hand_ids)
         /\ text' = chunk
         /\ log' = [log EXCEPT !.visited = @ + 1, !.last = "duplicate",
                              !.corpus = Record(@, chunk, "none")]
    /\ skipped' = skipped + 1
    /\ ci' = ci + 1
    /\ UNCHANGED <<converter, net, files, fi, converted, session_stacks,
                   seen_hand_ids, outputs, pc>>
    /\ HandIdle

\* lines 153-185: the hand is parsed, written and applied to the ledger
ConvertHand ==
    /\ HaveChunk
    /\ \E chunk \in Chunks :
         LET id == HandIdOf(chunk)
         IN  /\ Reads(chunk, "none")
             /\ IsHand(chunk)
             /\ id # ""
             /\ ~IsDuplicate(id, seen_hand_ids)
             /\ \E t \in {Try(chunk, "none", session_stacks)} :
                  /\ ~t.raised
                  /\ text' = chunk
                  /\ seen_hand_ids' = seen_hand_ids \cup {id}
                  /\ converter' = t.cv
                  /\ outputs' = Put(outputs, id, t.phh)
                  /\ net' = t.r
                  /\ session_stacks' = t.ledger
                  /\ log' = [log EXCEPT
                               !.visited = @ + 1, !.last = "converted",
                               !.writes = Put(@, id, Count(@, id) + 1),
                               !.corpus = Record(@, chunk, "none"),
                               !.prev = Outcome(@, SessionOf[chunk], t.phh, t.r),
                               !.hands = History(@, SessionOf[chunk], chunk, t.r)]
    /\ converted' = converted + 1
    /\ ci' = ci + 1
    /\ UNCHANGED <<files, fi, skipped, pc>>
    /\ HandIdle

\* lines 153-189: the try block raises; the handler counts the hand as skipped
ConvertFails ==
    /\ HaveChunk
    /\ \E chunk \in Chunks :
         LET id == HandIdOf(chunk)
         IN  /\ IsHand(chunk)
             /\ id # ""
             /\ ~IsDuplicate(id, seen_hand_ids)
             /\ \E fault \in Faults :
                  /\ Reads(chunk, fault)
                  /\ \E t \in {Try(chunk, fault, session_stacks)} :
                       /\ t.raised
                       /\ text' = chunk
                       /\ seen_hand_ids' = seen_hand_ids \cup {id}
                       /\ converter' = t.cv
                       /\ outputs' = IF t.written THEN Put(outputs, id, t.phh)
                                      ELSE outputs
                       /\ converted' = IF t.written THEN converted + 1
                                        ELSE converted
                       /\ net' = t.r
                       /\ session_stacks' = t.ledger
                       /\ log' = [log EXCEPT
                                    !.visited = @ + 1, !.last = "failed",
                                    !.failed = @ \cup {id},
                                    !.writes = IF t.written
                                               THEN Put(@, id, Count(@, id) + 1)
                                               ELSE @,
                                    !.corpus = Record(@, chunk, fault)]
    /\ skipped' = skipped + 1
    /\ ci' = ci + 1
    /\ pc' = Caught(pc)
    /\ UNCHANGED <<files, fi>>
    /\ HandIdle

\* lines 191-197: test.phh is copied when it exists, the counters are printed
Finish ==
    /\ pc = "loop" /\ FileDone /\ fi = Len(files)
    /\ \E exists \in BOOLEAN :
         /\ Reads(<<>>, IF exists THEN "test.phh" ELSE "none")
         /\ outputs' = IF exists THEN Put(outputs, "test", [variant |-> "test.phh"])
                        ELSE outputs
         /\ log' = [log EXCEPT
                      !.corpus = Record(@, <<>>, IF exists THEN "test.phh" ELSE "none")]
    /\ pc' = "done"
    /\ UNCHANGED <<converter, text, net, files, fi, ci, converted, skipped,
                   session_stacks, seen_hand_ids>>
    /\ HandIdle

\* (mutation of NewLedger: the running stacks of the run before are kept)
NewLedger_kept(old) == old

\* line 124: a run starts with an empty ledger
NewLedger(old) == <<>>

\* main is called once more on the same directory: new locals (lines 119-126);
\* the output directory is as the first run left it, or was emptied
Rerun ==
    /\ pc = "done" /\ log.run = 1
    /\ pc' = "loop"
    /\ converter' = reset
    /\ converted' = 0 /\ skipped' = 0
    /\ session_stacks' = NewLedger(session_stacks)
    /\ seen_hand_ids' = {}
    /\ fi' = 0 /\ ci' = 0
    /\ outputs' \in {outputs, <<>>}
    /\ log' = [log EXCEPT !.run = 2, !.visited = 0, !.last = "",
                          !.writes = <<>>, !.failed = {}, !.prev = <<>>,
                          !.hands = <<>>,
                          !.first = [outputs |-> outputs,
                                     session_stacks |-> session_stacks]]
    /\ UNCHANGED <<text, net, files>>
    /\ HandIdle

\* a file of the directory: its name matches the filter or not; a file that
\* is read gives at least one chunk (split('\n\n') of an empty file is [''])
FileShapes == [match : {TRUE}, n : 1..MaxChunks] \cup [match : {FALSE}, n : {1}]

RECURSIVE ChunksIn(_)
\* the chunks of the files whose names match
ChunksIn(fs) ==
    IF fs = <<>> THEN 0
    ELSE (IF Head(fs).match THEN Head(fs).n ELSE 0) + ChunksIn(Tail(fs))

InitDriver ==
    /\ converter = reset
    /\ current_street = "preflop"
    /\ in_summary = FALSE
    /\ text = <<>>
    /\ table = [phase |-> "none"]
    /\ net = [ok |-> TRUE, net |-> <<>>]
    /\ \E k \in 0..MaxFiles : files \in [1..k -> FileShapes]
    /\ ChunksIn(files) <= MaxChunks
    /\ fi = 0 /\ ci = 0
    /\ converted = 0 /\ skipped = 0
    /\ session_stacks = <<>>
    /\ seen_hand_ids = {}
    /\ outputs = <<>>
    /\ pc = "loop"
    /\ \E r \in {0, 1} :
         /\ r = 1 => ChunksIn(files) <= MaxTwice
         /\ log = [visited |-> 0, last |-> "", writes |-> <<>>, failed |-> {},
                  run |-> r, corpus |-> <<>>, first |-> <<>>, prev |-> <<>>,
                  hands |-> <<>>]

NextDriver ==
    \/ NextFile
    \/ SkipNotHand
    \/ SkipNoId
    \/ SkipDuplicate
    \/ ConvertHand
    \/ ConvertFails
    \/ Finish
    \/ Rerun

SpecDriver == InitDriver /\ [][NextDriver]_vars

----------------------------------------------------------------------------
(* Properties of a run of the driver (SpecDriver) *)

\* a step that visits one chunk; the chunk is text'
VisitsChunk == log'.visited = log.visited + 1

\* the chunk begins with the header prefix and an id can be extracted
CarriesId(chunk) ==
    /\ chunk # <<>>
    /\ chunk[1].t = "header"
    /\ \E i \in DOMAIN chunk : chunk[i].t = "header" /\ chunk[i].p # ""

\* C1: every stack of the session ledger is an integer >= 0, in every
\* reachable state of the run
StacksNonNegative ==
    \A s \in DOMAIN session_stacks :
        \A x \in DOMAIN session_stacks[s] : session_stacks[s][x] \in Nat

\* MrBlue lost 10000 twice in one session: his stack was held at 0
StacksNonNegativeWitness ==
    \E s \in DOMAIN session_stacks :
        /\ {"MrBlue", "MrPink"} \subseteq DOMAIN session_stacks[s]
        /\ session_stacks[s]["MrBlue"] = 0
        /\ session_stacks[s]["MrPink"] = 30000

\* C3: for the 6-player 50/100 example hand compute_net_changes gives +310
\* to the caller, -210 to the raiser, -100 to the big blind and 0 to the
\* three other folders, and the deltas sum to 0
ExampleDeltas ==
    (log.last = "converted" /\ \E id \in Ids, s \in Sessions : text = ExampleHand(id, s))
        => /\ net.ok
           /\ net.net = ("MrBlue" :> 310) @@ ("MrPink" :> -210)
                        @@ ("MrBlonde" :> -100) @@ ("MrWhite" :> 0)
                        @@ ("MrBrown" :> 0) @@ ("Pluribus" :> 0)
           /\ SumOver(net.net, DOMAIN net.net) = 0

\* the example hand has just been converted
ExampleDeltasWitness ==
    /\ log.last = "converted"
    /\ text = ExampleHand("100000", "Pluribus Session 100")
    /\ net.ok /\ net.net["MrBlue"] = 310
    /\ converted = 1

\* C4: no hand id is written twice in a run, and a chunk whose id was seen
\* before (even in a failed attempt) is skipped: the skip counter grows by
\* one and the output files, the converted counter and the ledger stay
OncePerHandId ==
    /\ [](\A id \in DOMAIN log.writes : log.writes[id] <= 1)
    /\ [][(VisitsChunk /\ CarriesId(text') /\ HandIdOf(text') \in seen_hand_ids)
            => /\ skipped' = skipped + 1
               /\ outputs' = outputs
               /\ converted' = converted
               /\ session_stacks' = session_stacks
               /\ seen_hand_ids' = seen_hand_ids]_vars

\* a second chunk with the id of a hand whose first attempt failed unwritten
OncePerHandIdWitness ==
    /\ log.last = "duplicate"
    /\ HandIdOf(text) \in log.failed
    /\ HandIdOf(text) \notin DOMAIN outputs
    /\ converted = 0 /\ skipped = 2

\* C5: a failing hand does not end the run: when main is done, every chunk
\* of every file whose name matches has been visited
FailureDoesNotAbort ==
    pc = "done" => log.visited = ChunksIn(files)

\* a hand failed in the first file and a hand of the second file was converted
FailureDoesNotAbortWitness ==
    /\ pc = "done"
    /\ Len(files) = 2 /\ files[1] = [match |-> TRUE, n |-> 1]
    /\ files[2] = [match |-> TRUE, n |-> 1]
    /\ log.failed # {} /\ log.last = "converted"
    /\ log.visited = 2

\* C6 (as claimed): every visited chunk increments exactly one of the two
\* counters, so converted + skipped is the number of chunks visited
CountersPartition ==
    converted + skipped = log.visited

\* C7: a hand whose processing raises leaves the session ledger as it was
FailureKeepsLedger ==
    [][(VisitsChunk /\ log'.last = "failed")
         => session_stacks' = session_stacks]_vars

\* the net-change calculation of a written hand raised, in a session the
\* ledger does not know, while the ledger held another session
FailureKeepsLedgerWitness ==
    /\ log.last = "failed"
    /\ ~net.ok
    /\ Count(log.writes, HandIdOf(text)) = 1
    /\ extract_session(text) \notin DOMAIN session_stacks
    /\ session_stacks # <<>>

\* C8: a chunk that does not begin with the header prefix, or that holds no
\* hand id, is not parsed: no record, ledger and seen ids unchanged, the
\* skip counter grows by one, and the loop goes on with the next chunk
NotAHandIsSkipped ==
    [][(VisitsChunk /\ ~CarriesId(text'))
         => /\ outputs' = outputs
            /\ converter' = converter
            /\ session_stacks' = session_stacks
            /\ seen_hand_ids' = seen_hand_ids
            /\ converted' = converted
            /\ skipped' = skipped + 1
            /\ pc' = "loop" /\ ci' = ci + 1 /\ fi' = fi]_vars

\* a chunk holding a header line with a fresh id, but not at its start
NotAHandIsSkippedWitness ==
    /\ log.last = "nothand"
    /\ Len(text) > 1 /\ text[1].t = "other"
    /\ HandIdOf(text) # "" /\ HandIdOf(text) \notin seen_hand_ids
    /\ skipped >= 1

\* the last chunk went through convert_to_phh and its record was written
RecordWritten ==
    /\ log.last \in {"converted", "failed"}
    /\ HandIdOf(text) \in DOMAIN outputs

\* C13: the written preflop list holds no action of a blind-post line, with
\* or without the all-in qualifier, and holds every other parsed preflop
\* action, in the order of the parsed list
BlindPostsExcluded ==
    RecordWritten
        => LET pre == outputs[HandIdOf(text)].actions["preflop"]
               want == WithoutBlindPosts(converter, "preflop")
           IN  /\ Len(pre) = Len(want)
               /\ \A i \in DOMAIN want : pre[i] = format_action(converter, want[i])

\* the amount of the blind the player posted in the hand, 0 when none
PostedBlind(cv, name) ==
    LET acts == cv.actions["preflop"]
        posts == {i \in DOMAIN acts :
                    /\ acts[i].player = name
                    /\ acts[i].action_type \in {"post_sb", "post_bb",
                                                "post_sb_allin", "post_bb_allin"}}
    IN  IF posts = {} THEN 0 ELSE acts[CHOOSE i \in posts : TRUE].amount

\* C14: the written blinds_or_straddles array has one entry per player, in
\* the order of the player list: the blind a player posted, 0 for a player
\* who posted none
BlindsArrayAligned ==
    RecordWritten
        => LET b == outputs[HandIdOf(text)].blinds_or_straddles
           IN  /\ Len(b) = Len(converter.players)
               /\ \A i \in DOMAIN converter.players :
                     b[i] = PostedBlind(converter, converter.players[i].name)

\* C15: a second run from scratch over the same directory ends with the same
\* output files, with the same contents, and with the same ledger as the
\* first run
SecondRunSame ==
    (pc = "done" /\ log.run = 2)
        => /\ outputs = log.first.outputs
           /\ session_stacks = log.first.session_stacks

\* in each run a hand was converted and another hand of its session failed
\* after its record was written
SecondRunSameWitness ==
    /\ pc = "done" /\ log.run = 2
    /\ converted = 2 /\ skipped = 1 /\ log.failed # {} /\ log.visited = 2
    /\ log.first.outputs # <<>>
    /\ \E s \in DOMAIN session_stacks :
         \E x \in DOMAIN session_stacks[s] : session_stacks[s][x] # DefaultStack

\* the seat lines of a chunk, in order
SeatLines(chunk) == SelectSeq(chunk, LAMBDA l : l.t = "seat")

\* a step that converts the hand text' and applies it to the ledger
ConvertsHand == VisitsChunk /\ log'.last = "converted"

\* C16: for the first hand of a session that is processed with success, the
\* record's starting stacks are those of the hand's seat lines, and the
\* session's new ledger entry holds for each player of the hand
\* max(0, stack of the seat line + net delta)
FirstHandSeeds ==
    [][(ConvertsHand /\ extract_session(text') \notin DOMAIN session_stacks)
         => LET seats == SeatLines(text')
                new == session_stacks'[extract_session(text')]
                delta == NetChanges[text'].net
                phh == outputs'[HandIdOf(text')]
            IN  /\ phh.starting_stacks = [i \in DOMAIN seats |-> seats[i].m]
                /\ DOMAIN new = {seats[i].p : i \in DOMAIN seats}
                /\ \A i \in DOMAIN seats :
                      new[seats[i].p] = IF seats[i].m + delta[seats[i].p] < 0 THEN 0
                                        ELSE seats[i].m + delta[seats[i].p]]_vars

\* the first hand of a session had a seat line with 100 chips, which were lost
FirstHandSeedsWitness ==
    /\ log.last = "converted"
    /\ text = ShortStackHand("100002", "Pluribus Session 101")
    /\ outputs["100002"].starting_stacks = <<DefaultStack, BigBlind>>
    /\ session_stacks["Pluribus Session 101"] = ("MrBlue" :> 10100) @@ ("MrBlonde" :> 0)

\* C17: a hand applied to a session the ledger holds sets the stack of every
\* player of the delta map to max(0, old + delta); old is the player's
\* ledger value, or 10000 for a player the session's ledger does not hold
ExistingSessionUpdate ==
    [][(ConvertsHand /\ extract_session(text') \in DOMAIN session_stacks)
         => LET old == session_stacks[extract_session(text')]
                new == session_stacks'[extract_session(text')]
                delta == NetChanges[text'].net
            IN  \A x \in DOMAIN delta :
                  LET o == IF x \in DOMAIN old THEN old[x] ELSE 10000
                  IN  /\ x \in DOMAIN new
                      /\ new[x] = IF o + delta[x] < 0 THEN 0 ELSE o + delta[x]]_vars

\* the example hand in a session that held MrBlue with 0 and MrPink with
\* 20000: MrBlonde, new to the session, is entered with 10000 - 100
ExistingSessionUpdateWitness ==
    /\ log.last = "converted"
    /\ text = ExampleHand("100001", "Pluribus Session 100")
    /\ session_stacks["Pluribus Session 100"]["MrBlue"] = 310
    /\ session_stacks["Pluribus Session 100"]["MrPink"] = 19790
    /\ session_stacks["Pluribus Session 100"]["MrBlonde"] = 9900

\* C18: a player who takes part in two converted hands h1 and h2 of one
\* session, with no converted hand of the player between them, starts h2
\* with max(0, s1 + d1): s1 the starting stack the record of h1 shows for the
\* player, d1 the player's net delta in h1
SeededFromPriorHand ==
    [][ConvertsHand
         => LET session == extract_session(text')
                phh == outputs'[HandIdOf(text')]
            IN  session \in DOMAIN log.prev
                  => \A i \in DOMAIN phh.players :
                       LET x == phh.players[i].name
                           h1 == log.prev[session][x]
                       IN  x \in DOMAIN log.prev[session]
                             => phh.players[i].starting_stack
                                  = IF h1.s + h1.d < 0 THEN 0 ELSE h1.s + h1.d]_vars

RECURSIVE Replay(_)
\* the stacks of a session after its converted hands hs, by the rules of the
\* ledger: the first hand brings the stacks of its seat lines, a later
\* newcomer 10000, and each hand adds its deltas, held at 0
Replay(hs) ==
    IF hs = <<>> THEN <<>>
    ELSE LET h == hs[Len(hs)]
             base == IF Len(hs) = 1 THEN h.seats
                     ELSE Replay(SubSeq(hs, 1, Len(hs) - 1))
         IN  [x \in (DOMAIN base) \cup (DOMAIN h.d) |->
                IF x \in DOMAIN h.d
                THEN LET v == (IF x \in DOMAIN base THEN base[x] ELSE 10000) + h.d[x]
                     IN  IF v < 0 THEN 0 ELSE v
                ELSE base[x]]

\* C19: the files are taken in the order of the sorted listing and the
\* chunks of a file in their order; a hand's record is written and the
\* ledger updated within the hand's step, before the next chunk; the stacks
\* the n-th hand of a session is written with are those after the deltas of
\* the hands 1..n-1 of the session, without the hand's own delta
InSourceOrder ==
    [][/\ \/ fi' = fi /\ ci' = ci
          \/ fi' = fi /\ ci' = ci + 1 /\ VisitsChunk
          \/ fi' = fi + 1 /\ ci' = 0 /\ log' = log
          \/ log'.run # log.run
       /\ ConvertsHand
            => LET session == extract_session(text')
                   phh == outputs'[HandIdOf(text')]
                   seats == SeatLines(text')
                   before == IF session \in DOMAIN log.hands
                             THEN Replay(log.hands[session]) ELSE <<>>
               IN  /\ Len(phh.players) = Len(seats)
                   /\ \A i \in DOMAIN seats :
                         phh.players[i].starting_stack
                           = IF seats[i].p \in DOMAIN before
                             THEN before[seats[i].p] ELSE seats[i].m
                   /\ session_stacks'[session] = Replay(log'.hands[session])
       /\ (~ConvertsHand /\ log'.run = log.run)
            => session_stacks' = session_stacks]_vars

\* the third hand of a session was written with the stacks after the first
\* two: MrBlue lost his 10000 in the first hand and won 100 in the second
InSourceOrderWitness ==
    /\ log.last = "converted"
    /\ text = ExampleHand("100001", "Pluribus Session 101")
    /\ Len(log.hands["Pluribus Session 101"]) = 3
    /\ outputs["100001"].starting_stacks[1] = 100
    /\ session_stacks["Pluribus Session 101"]["MrBlue"] = 410

\* C25: the chunk B of a converting step, parsed by a converter that holds
\* the record of an earlier chunk (its stacks overridden from the ledger) gives the
\* record and the serialized output that a newly constructed converter gives
\* for B; the record the driver is left with is that record with the stacks
\* of the ledger, and the file written is its serialization
FreshPerChunk ==
    [][(log'.visited # log.visited /\ log'.last = "converted"
          /\ converter # reset)
          => \E again \in {parse_on(converter, text')} :
               \E record \in {Override(ParsedChunk[text'],
                                        GetStacks(session_stacks, SessionOf[text']))} :
                 /\ again = ParsedChunk[text']
                 /\ converter' = record
                 /\ outputs'[HandIdOf(text')] = convert_to_phh(record)]_vars

\* the third hand of a session was converted; the second was written with
\* the stacks the first had left, and had other players and another id
FreshPerChunkWitness ==
    /\ log.last = "converted"
    /\ \E s \in DOMAIN log.hands :
          /\ Len(log.hands[s]) = 3
          /\ \E x \in DOMAIN log.hands[s][1].d :
                /\ log.hands[s][1].d[x] # 0
                /\ x \in DOMAIN log.hands[s][2].seats
          /\ DOMAIN log.hands[s][2].seats # DOMAIN log.hands[s][3].seats

\* C26: within a run no session and no player leaves the ledger; a step that
\* reads no chunk leaves the ledger as it is; a step that reads a chunk of
\* session S leaves every other session as it is, adds none but S, and
\* changes or adds in S only players named in the seat lines of the chunk
LedgerFrame ==
    [][log'.run = log.run
          => /\ \A s \in DOMAIN session_stacks :
                   /\ s \in DOMAIN session_stacks'
                   /\ DOMAIN session_stacks[s] \subseteq DOMAIN session_stacks'[s]
             /\ log'.visited = log.visited => session_stacks' = session_stacks
             /\ (log'.visited # log.visited /\ session_stacks' # session_stacks)
                   => \E session \in {extract_session(text')} :
                        \E seated \in {NameSet(SeatNames(text', 1))} :
                          \A s \in DOMAIN session_stacks' :
                            IF s # session
                            THEN /\ s \in DOMAIN session_stacks
                                 /\ session_stacks'[s] = session_stacks[s]
                            ELSE \A x \in DOMAIN session_stacks'[s] \ seated :
                                   /\ s \in DOMAIN session_stacks
                                   /\ x \in DOMAIN session_stacks[s]
                                   /\ session_stacks'[s][x] = session_stacks[s][x]]_vars

\* a hand that moved chips was applied to a session that holds a player the
\* hand does not seat, while the ledger holds another session
LedgerFrameWitness ==
    /\ log.last = "converted"
    /\ Cardinality(DOMAIN session_stacks) = 2
    /\ net.ok /\ \E y \in DOMAIN net.net : net.net[y] # 0
    /\ extract_session(text) \in DOMAIN session_stacks
    /\ \E x \in DOMAIN session_stacks[extract_session(text)] :
          x \notin NameSet(SeatNames(text, 1))

\* C27: in the record the converter holds no two players have the same name,
\* and get_player_index finds for the name of every recorded action exactly
\* one player
UniquePlayerIndex ==
    LET ps == converter.players
    IN  /\ \A i, j \in DOMAIN ps : ps[i].name = ps[j].name => i = j
        /\ \A s \in DOMAIN converter.actions :
              \A k \in DOMAIN converter.actions[s] :
                LET x == converter.actions[s][k].player
                IN  /\ get_player_index(converter, x) >= 0
                    /\ Cardinality({i \in DOMAIN ps : ps[i].name = x}) = 1

====
